---- MODULE Spec2Model ----
(***************************************************************************)
(* A model of the containers of Nugine/data-structure:                     *)
(*   RingDeque    (src/src/deque/ring_deque.rs, over raw/raw_array.rs)     *)
(*   SequenceList (src/src/linear_list/sequence_list.rs)                   *)
(*   LinkedList   (src/src/linear_list/linked_list.rs)                     *)
(* Each container has its own next-state relation and specification        *)
(* (SpecRD, SpecSL, SpecLL); the variables of the other containers stay    *)
(* as Init leaves them.                                                    *)
(*                                                                         *)
(* Memory is modelled slot by slot.  A slot holds an element (1..MaxElem)  *)
(* or Uninit: never written, moved out by ptr.read(), or destroyed by      *)
(* drop_in_place.  Reading an Uninit slot, or memory outside the live      *)
(* allocation, is undefined behaviour and yields any element.              *)
(***************************************************************************)
EXTENDS Integers, Sequences, FiniteSets, Bags, TLC

\* ------------------------------------------------------------------ bounds
MaxCap == 3
MaxElem == 2
MaxOver == 1
MaxPushes == 6
MaxNodes == 3
MaxVal == 2
MaxIters == 2
MaxListPushes == 5
MaxWalkPushes == 4

\* ----------------------------------------------------------- shared helpers
\* An uninitialized slot (std::alloc::alloc returns uninitialized memory).
Uninit == 0

\* The element values the callers push.
Elems == 1..MaxElem

\* What reading the slot content c can give: the element, or anything when
\* the slot is uninitialized (ptr.read() of uninitialized memory).
ReadOf(c) == IF c = Uninit THEN Elems ELSE {c}


VARIABLES
    \* RingDeque { raw: RawArray { arr, cap }, head, tail, len }
    rdBuf,      \* "allocated" | "sentinel" (NonNull::dangling) | "freed"
    rdCap,      \* raw.cap
    rdSlots,    \* the memory at raw.arr: [0..rdCap-1 -> Elems \cup {Uninit}]
    rdHead,
    rdTail,
    rdLen,
    rdResult,   \* the last call and what it returned
    rdDropLog,  \* the slot indices the last clear() ran drop_in_place on, in order
    rdDealloc,  \* calls of std::alloc::dealloc: [real |-> n, sentinel |-> n]
    \* history of the deque since new(): the abstract double-ended sequence
    rdAbs,      \* the abstract sequence, front first
    rdAbsRes,   \* what the abstract sequence returned for the last pop (0: nothing)
    rdPushes,   \* pushes that returned
    rdPops,     \* pops that returned Some
    rdPlain     \* only pushes and pops so far, no push issued while len = cap

VARIABLES
    \* SequenceList { arr, len, cap }
    slBuf,      \* "allocated" | "sentinel" (NonNull::dangling) | "freed"
    slCap,
    slLen,
    slSlots,    \* the memory at arr: [0..slCap-1 -> Elems \cup {Uninit}]
    slOobW,     \* slot indices >= cap that were written
    slResult,   \* the last call and what it returned
    slDealloc,  \* calls of std::alloc::dealloc: [real |-> n, sentinel |-> n]
    slUaf,      \* the memory at arr was read or destroyed after its release
    \* IterOwned { arr, head, tail, len, cap }: head and tail as slot indices
    itState,    \* "none" | "live" | "dropped"
    itHead,
    itTail,
    itLen,
    \* history of the owning iterator
    itOrig,     \* the contents of the list when into_iter was called
    itLog,      \* what next / next_back returned: <<[dir, idx, val], ...>>
    itKilled,   \* the slot indices drop_in_place ran on since into_iter was called
    \* history of the list's calls
    slArgs,     \* the index and element given to the last call: [idx, elem] (-1, 0: none)
    slBefore,   \* the contents before the last insert (kept by a remove that undoes it)
    slRound,    \* the last two calls were insert(i, x) with len < cap, then remove(i)
    slPlain,    \* since new(): only calls within the capacity and with valid indices
    slAbs,      \* while slPlain: the reference sequence
    slAbsRes    \* while slPlain: what the reference sequence returns for the last call (0: nothing)

VARIABLES
    \* LinkedList { head, len } and the heap of Node { elem, prev, next }
    llHead,     \* a node address, or Dangling
    llLen,
    llNodes,    \* [NodeIds -> [live, elem, prev, next]]
    llGone,     \* the list was dropped
    llResult,   \* the last call and what it returned
    \* history of the list since new()
    llOrdOnly,  \* only ordered_insert was called so far
    llIns,      \* while llOrdOnly: the values given to ordered_insert, in call order
    llPlain,    \* only push_back, push_front, pop_front, pop_back were called so far
    llAbs,      \* while llPlain: the abstract double-ended sequence of the elements
    llAbsRes,   \* while llPlain: what the abstract sequence returns for the last pop (0: None)
    llPushes,   \* while llPlain: the number of pushes
    llPops      \* while llPlain: the number of pops that returned an element

VARIABLES
    \* a borrow iterator of the list: Iter / IterMut { iter: RawNodeIter { head, tail, len } }
    lbKind,     \* "none" | "iter" | "iter_mut"
    lbHead,     \* node addresses, or Dangling
    lbTail,
    lbLen,
    lbResult,   \* the last call on the iterator and what it returned
    lbLog       \* what next / next_back yielded so far: <<[dir, node, val], ...>>

VARIABLES
    \* the borrow iterators of the deque: Iter / IterMut { iter: RawPtrIter { raw, head, tail, len } }
    rbIts       \* the bag of the live iterators [kind, head, tail, len, fronts, backs],
                \* kind: "iter" | "iter_mut"; fronts / backs: the slots whose
                \* references next / next_back handed out, in order

rdVars == <<rdBuf, rdCap, rdSlots, rdHead, rdTail, rdLen, rdResult, rdDropLog,
            rdDealloc, rdAbs, rdAbsRes, rdPushes, rdPops, rdPlain>>

slVars == <<slBuf, slCap, slLen, slSlots, slOobW, slResult, slDealloc, slUaf,
            itState, itHead, itTail, itLen, itOrig, itLog, itKilled,
            slArgs, slBefore, slRound, slPlain, slAbs, slAbsRes>>

llVars == <<llHead, llLen, llNodes, llGone, llResult, llIns, llOrdOnly,
            llPlain, llAbs, llAbsRes, llPushes, llPops>>

lbVars == <<lbKind, lbHead, lbTail, lbLen, lbResult, lbLog>>

vars == <<rdVars, slVars, llVars, lbVars, rbIts>>

\* ---------------------------------------------------------------- RawArray
\* RawArray::alloc: the buffer state for a capacity.
RawAlloc(capacity) == IF capacity = 0 THEN "sentinel" ELSE "allocated"

\* ---------------------------------------------------------------- RingDeque
\* (i + 1) % cap
NextIdx(i, cap) == (i + 1) % cap

\* A stepping back that stops at slot 0 instead of wrapping to cap - 1.
PrevIdxNoWrap(i, cap) == IF i = 0 THEN 0 ELSE i - 1

\* (i + cap - 1) % cap
PrevIdx(i, cap) == (i + cap - 1) % cap

Res(op, out, val) == [op |-> op, out |-> out, val |-> val]

\* RingDeque::new: the fields of the deque it returns (and the empty history)
RdFresh(capacity) ==
    [buf |-> RawAlloc(capacity),
     cap |-> capacity,
     slots |-> [i \in 0..(capacity - 1) |-> Uninit],
     head |-> 0,
     tail |-> 0,
     len |-> 0]

RdInit(capacity) ==
    /\ rdBuf = RdFresh(capacity).buf
    /\ rdCap = RdFresh(capacity).cap
    /\ rdSlots = RdFresh(capacity).slots
    /\ rdHead = RdFresh(capacity).head
    /\ rdTail = RdFresh(capacity).tail
    /\ rdLen = RdFresh(capacity).len
    /\ rdResult = Res("new", "ok", 0)
    /\ rdDropLog = <<>>
    /\ rdDealloc = [real |-> 0, sentinel |-> 0]
    /\ rdAbs = <<>>
    /\ rdAbsRes = 0
    /\ rdPushes = 0
    /\ rdPops = 0
    /\ rdPlain = TRUE
    /\ rbIts = EmptyBag

RdLive == rdBuf # "freed"

\* The other containers are untouched by the deque's operations.
RdFrame == UNCHANGED <<slVars, llVars, lbVars, rbIts>>

\* is_full / is_empty
RdIsFull == rdLen = rdCap
RdIsEmpty == rdLen = 0

\* The slots of the circular window: the rdLen slots from rdHead, modulo rdCap.
RdWindowIdx(k) == (rdHead + k) % rdCap
RdWindow == [k \in 1..rdLen |-> rdSlots[RdWindowIdx(k - 1)]]

\* A push_back that refuses only when there is no slot at all: on a full
\* deque of capacity >= 1 it overwrites the slot at tail.
RdPushBackOverwrite(e) ==
    /\ RdLive
    /\ rdPushes < MaxPushes
    /\ rdLen < rdCap + MaxOver
    /\ IF rdCap = 0
       THEN /\ rdResult' = Res("push_back", "panic", 0)
            /\ rdPlain' = FALSE
            /\ UNCHANGED <<rdSlots, rdHead, rdTail, rdLen, rdAbs, rdPushes>>
       ELSE /\ rdSlots' = [rdSlots EXCEPT ![rdTail] = e]
            /\ rdTail' = NextIdx(rdTail, rdCap)
            /\ rdLen' = rdLen + 1
            /\ rdResult' = Res("push_back", "ok", 0)
            /\ rdAbs' = Append(rdAbs, e)
            /\ rdPushes' = rdPushes + 1
            /\ UNCHANGED <<rdHead, rdPlain>>
    /\ rdDropLog' = <<>>
    /\ rdAbsRes' = 0
    /\ UNCHANGED <<rdBuf, rdCap, rdDealloc, rdPops>>
    /\ RdFrame

\* RingDeque::push_back
RdPushBack(e) ==
    /\ RdLive
    /\ rdPushes < MaxPushes
    /\ IF RdIsFull
       THEN /\ rdResult' = Res("push_back", "panic", 0)
            /\ rdPlain' = FALSE
            /\ UNCHANGED <<rdSlots, rdHead, rdTail, rdLen, rdAbs, rdPushes>>
       ELSE /\ rdSlots' = [rdSlots EXCEPT ![rdTail] = e]
            /\ rdTail' = NextIdx(rdTail, rdCap)
            /\ rdLen' = rdLen + 1
            /\ rdResult' = Res("push_back", "ok", 0)
            /\ rdAbs' = Append(rdAbs, e)
            /\ rdPushes' = rdPushes + 1
            /\ UNCHANGED <<rdHead, rdPlain>>
    /\ rdDropLog' = <<>>
    /\ rdAbsRes' = 0
    /\ UNCHANGED <<rdBuf, rdCap, rdDealloc, rdPops>>
    /\ RdFrame

\* RingDeque::push_front: no is_full() test; with cap = 0 the index
\* arithmetic panics (subtraction overflow or remainder by zero) before any
\* assignment.
\* A push_front on a deque of capacity 0 that counts the element instead of
\* failing on the modulo.
RdPushFrontNoModulo(e) ==
    /\ RdLive
    /\ rdPushes < MaxPushes
    /\ rdLen < rdCap + MaxOver
    /\ rdHead' = IF rdCap = 0 THEN 0 ELSE PrevIdx(rdHead, rdCap)
    /\ rdSlots' = [i \in DOMAIN rdSlots |-> IF i = rdHead' THEN e ELSE rdSlots[i]]
    /\ rdLen' = rdLen + 1
    /\ rdResult' = Res("push_front", "ok", 0)
    /\ rdAbs' = <<e>> \o rdAbs
    /\ rdPushes' = rdPushes + 1
    /\ rdPlain' = (rdPlain /\ ~RdIsFull)
    /\ rdDropLog' = <<>>
    /\ rdAbsRes' = 0
    /\ UNCHANGED <<rdBuf, rdCap, rdTail, rdDealloc, rdPops>>
    /\ RdFrame

RdPushFront(e) ==
    /\ RdLive
    /\ rdPushes < MaxPushes
    /\ rdLen < rdCap + MaxOver
    /\ IF rdCap = 0
       THEN /\ rdResult' = Res("push_front", "panic", 0)
            /\ rdPlain' = FALSE
            /\ UNCHANGED <<rdSlots, rdHead, rdLen, rdAbs, rdPushes>>
       ELSE /\ rdHead' = PrevIdx(rdHead, rdCap)
            /\ rdSlots' = [rdSlots EXCEPT ![rdHead'] = e]
            /\ rdLen' = rdLen + 1
            /\ rdResult' = Res("push_front", "ok", 0)
            /\ rdAbs' = <<e>> \o rdAbs
            /\ rdPushes' = rdPushes + 1
            /\ rdPlain' = (rdPlain /\ ~RdIsFull)
    /\ rdDropLog' = <<>>
    /\ rdAbsRes' = 0
    /\ UNCHANGED <<rdBuf, rdCap, rdTail, rdDealloc, rdPops>>
    /\ RdFrame

\* RingDeque::pop_back
RdPopBack ==
    /\ RdLive
    /\ IF RdIsEmpty
       THEN /\ rdResult' = Res("pop_back", "none", 0)
            /\ rdAbsRes' = 0
            /\ UNCHANGED <<rdSlots, rdTail, rdLen, rdAbs, rdPops>>
       ELSE /\ rdTail' = PrevIdx(rdTail, rdCap)
            /\ rdLen' = rdLen - 1
            /\ \E v \in ReadOf(rdSlots[rdTail']) :
                   rdResult' = Res("pop_back", "some", v)
            /\ rdSlots' = [rdSlots EXCEPT ![rdTail'] = Uninit]
            /\ rdAbsRes' = IF rdAbs = <<>> THEN 0 ELSE rdAbs[Len(rdAbs)]
            /\ rdAbs' = IF rdAbs = <<>> THEN <<>> ELSE SubSeq(rdAbs, 1, Len(rdAbs) - 1)
            /\ rdPops' = rdPops + 1
    /\ rdDropLog' = <<>>
    /\ UNCHANGED <<rdBuf, rdCap, rdHead, rdDealloc, rdPushes, rdPlain>>
    /\ RdFrame

\* RingDeque::pop_front
RdPopFront ==
    /\ RdLive
    /\ IF RdIsEmpty
       THEN /\ rdResult' = Res("pop_front", "none", 0)
            /\ rdAbsRes' = 0
            /\ UNCHANGED <<rdSlots, rdHead, rdLen, rdAbs, rdPops>>
       ELSE /\ \E v \in ReadOf(rdSlots[rdHead]) :
                   rdResult' = Res("pop_front", "some", v)
            /\ rdSlots' = [rdSlots EXCEPT ![rdHead] = Uninit]
            /\ rdHead' = NextIdx(rdHead, rdCap)
            /\ rdLen' = rdLen - 1
            /\ rdAbsRes' = IF rdAbs = <<>> THEN 0 ELSE Head(rdAbs)
            /\ rdAbs' = IF rdAbs = <<>> THEN <<>> ELSE Tail(rdAbs)
            /\ rdPops' = rdPops + 1
    /\ rdDropLog' = <<>>
    /\ UNCHANGED <<rdBuf, rdCap, rdTail, rdDealloc, rdPushes, rdPlain>>
    /\ RdFrame

\* The slot indices RingDeque::clear runs drop_in_place on, in order: one
\* slice of len slots from head when head <= tail, else the slices
\* head..cap and 0..tail.
RdClearDrops ==
    IF RdIsEmpty THEN <<>>
    ELSE IF rdHead <= rdTail
         THEN [k \in 1..rdLen |-> rdHead + k - 1]
         ELSE [k \in 1..(rdCap - rdHead) |-> rdHead + k - 1]
              \o [k \in 1..rdTail |-> k - 1]

\* The memory after drop_in_place of the slots named by drops.
RdAfterDrops(drops) ==
    [i \in DOMAIN rdSlots |->
        IF \E k \in DOMAIN drops : drops[k] = i THEN Uninit ELSE rdSlots[i]]

\* RingDeque::clear, as called by the user or by drop
RdClearBody ==
    /\ rdDropLog' = RdClearDrops
    /\ rdSlots' = RdAfterDrops(RdClearDrops)
    /\ IF RdIsEmpty
       THEN UNCHANGED <<rdHead, rdTail, rdLen>>
       ELSE /\ rdHead' = 0
            /\ rdTail' = 0
            /\ rdLen' = 0
    /\ rdAbs' = <<>>
    /\ rdAbsRes' = 0
    /\ rdPlain' = FALSE
    /\ UNCHANGED <<rdCap, rdPushes, rdPops>>

RdClear ==
    /\ RdLive
    /\ RdClearBody
    /\ rdResult' = Res("clear", "ok", 0)
    /\ UNCHANGED <<rdBuf, rdDealloc>>
    /\ RdFrame

\* Drop for RingDeque: clear(), then raw.dealloc() whatever the capacity
RdDrop ==
    /\ RdLive
    /\ RdClearBody
    /\ rdResult' = Res("drop", "ok", 0)
    /\ rdBuf' = "freed"
    /\ rdDealloc' = IF rdBuf = "sentinel"
                    THEN [rdDealloc EXCEPT !.sentinel = @ + 1]
                    ELSE [rdDealloc EXCEPT !.real = @ + 1]
    /\ RdFrame

\* RingDeque::new after the previous deque is gone
RdNew(capacity) ==
    /\ ~RdLive
    /\ rdBuf' = RdFresh(capacity).buf
    /\ rdCap' = RdFresh(capacity).cap
    /\ rdSlots' = RdFresh(capacity).slots
    /\ rdHead' = RdFresh(capacity).head
    /\ rdTail' = RdFresh(capacity).tail
    /\ rdLen' = RdFresh(capacity).len
    /\ rdResult' = Res("new", "ok", 0)
    /\ rdDropLog' = <<>>
    /\ rdDealloc' = [real |-> 0, sentinel |-> 0]
    /\ rdAbs' = <<>>
    /\ rdAbsRes' = 0
    /\ rdPushes' = 0
    /\ rdPops' = 0
    /\ rdPlain' = TRUE
    /\ RdFrame

\* ---------------------------------------------- RingDeque: borrow iterators
\* No borrow of the deque is live: what every method taking &mut self needs.
RbIdle == rbIts = EmptyBag

\* RawArray::shadow_clone: a second descriptor of the same memory, with the
\* same capacity.
RawShadowClone == rdCap

\* The live iterators with the iterator it replaced by its next state / removed.
RbReplace(it, new) == (rbIts (-) SetToBag({it})) (+) SetToBag({new})
RbRemove(it) == rbIts (-) SetToBag({it})

\* RingDeque::iter / iter_mut: both take &self, so either can be called while
\* other borrow iterators of the deque are live.
\* RawPtrIter::from_ring_deque copies head, tail and len.
RbStart(kind) ==
    /\ RdLive
    /\ BagCardinality(rbIts) < MaxIters
    /\ rbIts' = rbIts (+) SetToBag({[kind |-> kind, head |-> rdHead, tail |-> rdTail,
                                     len |-> rdLen, fronts |-> <<>>, backs |-> <<>>]})
    /\ UNCHANGED <<rdVars, slVars, llVars, lbVars>>

\* RingDeque::iter(&self)
RdIter == RbStart("iter")

\* RingDeque::iter_mut(&self)
RdIterMut == RbStart("iter_mut")

\* RawPtrIter::next_front, reached through Iter::next and IterMut::next
RbNext(it) ==
    /\ it.len > 0
    /\ rbIts' = RbReplace(it, [it EXCEPT !.fronts = Append(@, it.head),
                                         !.head = NextIdx(@, RawShadowClone),
                                         !.len = @ - 1])
    /\ UNCHANGED <<rdVars, slVars, llVars, lbVars>>

\* A next_back that reads the slot at tail before stepping tail back.
RbNextBackAtTail(it) ==
    /\ it.len > 0
    /\ rbIts' = RbReplace(it, [it EXCEPT !.backs = Append(@, it.tail),
                                         !.tail = PrevIdx(@, RawShadowClone),
                                         !.len = @ - 1])
    /\ UNCHANGED <<rdVars, slVars, llVars, lbVars>>

\* RawPtrIter::next_back, reached through Iter::next_back and IterMut::next_back
RbNextBack(it) ==
    /\ it.len > 0
    /\ rbIts' = RbReplace(it, [it EXCEPT !.backs = Append(@, PrevIdx(it.tail, RawShadowClone)),
                                         !.tail = PrevIdx(@, RawShadowClone),
                                         !.len = @ - 1])
    /\ UNCHANGED <<rdVars, slVars, llVars, lbVars>>

\* The iterator and the references it handed out go out of scope.
RbDrop(it) ==
    /\ rbIts' = RbRemove(it)
    /\ UNCHANGED <<rdVars, slVars, llVars, lbVars>>

NextRD ==
    \/ \E e \in Elems : RdPushBack(e)
    \/ \E e \in Elems : RdPushFront(e)
    \/ RdPopBack
    \/ RdPopFront
    \/ RdClear
    \/ RdDrop
    \/ \E c \in 0..MaxCap : RdNew(c)

\* -------------------------------------------------------------- SequenceList
\* SequenceList::new: the fields of the list it returns
SlFresh(capacity) ==
    [buf |-> IF capacity = 0 THEN "sentinel" ELSE "allocated",
     cap |-> capacity,
     len |-> 0,
     slots |-> [i \in 0..(capacity - 1) |-> Uninit]]

SlInit(capacity) ==
    /\ slBuf = SlFresh(capacity).buf
    /\ slCap = SlFresh(capacity).cap
    /\ slLen = SlFresh(capacity).len
    /\ slSlots = SlFresh(capacity).slots
    /\ slOobW = {}
    /\ slResult = Res("new", "ok", 0)
    /\ slDealloc = [real |-> 0, sentinel |-> 0]
    /\ slUaf = FALSE
    /\ itState = "none"
    /\ itHead = 0
    /\ itTail = 0
    /\ itLen = 0
    /\ itOrig = <<>>
    /\ itLog = <<>>
    /\ itKilled = <<>>
    /\ slArgs = [idx |-> -1, elem |-> 0]
    /\ slBefore = <<>>
    /\ slRound = FALSE
    /\ slPlain = TRUE
    /\ slAbs = <<>>
    /\ slAbsRes = 0

\* The list value exists: not dropped, not consumed by into_iter.
SlLive == slBuf # "freed" /\ itState = "none"

\* The other containers are untouched by the list's operations.
SlFrame == UNCHANGED <<rdVars, llVars, lbVars, rbIts>>

\* The history of a call that is neither an insert nor a remove undoing one.
SlNoted(idx, elem) ==
    /\ slArgs' = [idx |-> idx, elem |-> elem]
    /\ slBefore' = <<>>
    /\ slRound' = FALSE

\* The call leaves the use the reference sequence describes.
SlOffReference ==
    /\ slPlain' = FALSE
    /\ slAbs' = <<>>
    /\ slAbsRes' = 0

\* The reference sequence with x inserted before position i (0-based) / with
\* position i removed.
SeqInsert(q, i, x) == SubSeq(q, 1, i) \o <<x>> \o SubSeq(q, i + 1, Len(q))
SeqRemove(q, i) == SubSeq(q, 1, i) \o SubSeq(q, i + 2, Len(q))

\* The iterator's fields and history do not change.
ItSame == UNCHANGED <<itState, itHead, itTail, itLen, itOrig, itLog, itKilled>>

\* What self.offset(i).read() can give: the slot's element, or anything for
\* an uninitialized slot, a slot outside the buffer or released memory.
SlRead(i) ==
    IF slBuf = "allocated" /\ i \in DOMAIN slSlots THEN ReadOf(slSlots[i]) ELSE Elems

\* The slots [0, len) as the slice deref() gives.
SlContents ==
    [k \in 1..slLen |-> IF (k - 1) \in DOMAIN slSlots THEN slSlots[k - 1] ELSE Uninit]

\* The slot indices lo..hi-1 that lie outside the buffer.
SlOutside(lo, hi) == {i \in lo..(hi - 1) : i >= slCap}

\* The memory after drop_in_place of the slice of n slots from slot lo.
SlAfterDrop(lo, n) ==
    [i \in DOMAIN slSlots |-> IF lo <= i /\ i < lo + n THEN Uninit ELSE slSlots[i]]

\* SequenceList::push
SlPush(e) ==
    /\ SlLive
    /\ slLen < slCap + MaxOver \/ slLen = slCap
    /\ IF slLen = slCap
       THEN /\ slResult' = Res("push", "panic", 0)
            /\ UNCHANGED <<slSlots, slLen, slOobW>>
       ELSE /\ slSlots' = [i \in DOMAIN slSlots |-> IF i = slLen THEN e ELSE slSlots[i]]
            /\ slOobW' = slOobW \cup SlOutside(slLen, slLen + 1)
            /\ slLen' = slLen + 1
            /\ slResult' = Res("push", "ok", 0)
    /\ UNCHANGED <<slBuf, slCap, slDealloc, slUaf>>
    /\ ItSame
    /\ SlNoted(-1, e)
    /\ slPlain' = (slPlain /\ slLen < slCap)
    /\ slAbs' = IF slPlain' THEN Append(slAbs, e) ELSE <<>>
    /\ slAbsRes' = 0
    /\ SlFrame

\* A pop that does not test len first.
SlPopUnchecked ==
    /\ SlLive
    /\ slLen' = slLen - 1
    /\ \E v \in SlRead(slLen') : slResult' = Res("pop", "some", v)
    /\ slSlots' = SlAfterDrop(slLen', 1)
    /\ UNCHANGED <<slBuf, slCap, slOobW, slDealloc, slUaf>>
    /\ ItSame
    /\ SlNoted(-1, 0)
    /\ SlOffReference
    /\ SlFrame

\* SequenceList::pop
SlPop ==
    /\ SlLive
    /\ IF slLen = 0
       THEN /\ slResult' = Res("pop", "none", 0)
            /\ UNCHANGED <<slSlots, slLen>>
       ELSE /\ slLen' = slLen - 1
            /\ \E v \in SlRead(slLen') : slResult' = Res("pop", "some", v)
            /\ slSlots' = SlAfterDrop(slLen', 1)
    /\ UNCHANGED <<slBuf, slCap, slOobW, slDealloc, slUaf>>
    /\ ItSame
    /\ SlNoted(-1, 0)
    /\ slAbs' = IF slPlain /\ slAbs # <<>> THEN SubSeq(slAbs, 1, Len(slAbs) - 1) ELSE <<>>
    /\ slAbsRes' = IF slPlain /\ slAbs # <<>> THEN slAbs[Len(slAbs)] ELSE 0
    /\ UNCHANGED slPlain
    /\ SlFrame

\* A clear that destroys the elements and keeps len.
SlClearKeepsLen ==
    /\ SlLive
    /\ slSlots' = SlAfterDrop(0, slLen)
    /\ slResult' = Res("clear", "ok", 0)
    /\ UNCHANGED <<slBuf, slCap, slLen, slOobW, slDealloc, slUaf>>
    /\ ItSame
    /\ SlNoted(-1, 0)
    /\ slAbs' = <<>>
    /\ slAbsRes' = 0
    /\ UNCHANGED slPlain
    /\ SlFrame

\* SequenceList::clear
SlClear ==
    /\ SlLive
    /\ slLen' = 0
    /\ slSlots' = SlAfterDrop(0, slLen)
    /\ slResult' = Res("clear", "ok", 0)
    /\ UNCHANGED <<slBuf, slCap, slOobW, slDealloc, slUaf>>
    /\ ItSame
    /\ SlNoted(-1, 0)
    /\ slAbs' = <<>>
    /\ slAbsRes' = 0
    /\ UNCHANGED slPlain
    /\ SlFrame

\* An insert that writes the element at index without moving the slots
\* [index, len) up first.
SlInsertNoShift(index, e) ==
    /\ SlLive
    /\ slLen < slCap + MaxOver
    /\ IF index > slLen
       THEN /\ slResult' = Res("insert", "panic", 0)
            /\ UNCHANGED <<slSlots, slLen, slOobW>>
       ELSE /\ slSlots' = [i \in DOMAIN slSlots |-> IF i = index THEN e ELSE slSlots[i]]
            /\ slOobW' = slOobW \cup SlOutside(index, index + 1)
            /\ slLen' = slLen + 1
            /\ slResult' = Res("insert", "ok", 0)
    /\ UNCHANGED <<slBuf, slCap, slDealloc, slUaf>>
    /\ ItSame
    /\ slArgs' = [idx |-> index, elem |-> e]
    /\ slBefore' = IF index <= slLen /\ slLen < slCap THEN SlContents ELSE <<>>
    /\ slRound' = FALSE
    /\ slPlain' = (slPlain /\ index <= slLen /\ slLen < slCap)
    /\ slAbs' = IF slPlain' THEN SeqInsert(slAbs, index, e) ELSE <<>>
    /\ slAbsRes' = 0
    /\ SlFrame

\* SequenceList::insert: only the index is tested, not the capacity.
\* ptr::copy moves the slots [index, len) to [index + 1, len + 1), then the
\* element is written at index.
SlInsert(index, e) ==
    /\ SlLive
    /\ slLen < slCap + MaxOver
    /\ IF index > slLen
       THEN /\ slResult' = Res("insert", "panic", 0)
            /\ UNCHANGED <<slSlots, slLen, slOobW>>
       ELSE /\ slSlots' = [i \in DOMAIN slSlots |->
                              IF i < index THEN slSlots[i]
                              ELSE IF i = index THEN e
                              ELSE IF i <= slLen THEN slSlots[i - 1]
                              ELSE slSlots[i]]
            /\ slOobW' = slOobW \cup SlOutside(index, slLen + 1)
            /\ slLen' = slLen + 1
            /\ slResult' = Res("insert", "ok", 0)
    /\ UNCHANGED <<slBuf, slCap, slDealloc, slUaf>>
    /\ ItSame
    /\ slArgs' = [idx |-> index, elem |-> e]
    /\ slBefore' = IF index <= slLen /\ slLen < slCap THEN SlContents ELSE <<>>
    /\ slRound' = FALSE
    /\ slPlain' = (slPlain /\ index <= slLen /\ slLen < slCap)
    /\ slAbs' = IF slPlain' THEN SeqInsert(slAbs, index, e) ELSE <<>>
    /\ slAbsRes' = 0
    /\ SlFrame

\* A remove that refuses an index only beyond len, as insert does.
SlRemoveLateCheck(index) ==
    /\ SlLive
    /\ IF index > slLen
       THEN /\ slResult' = Res("remove", "panic", 0)
            /\ UNCHANGED <<slSlots, slLen, slOobW>>
       ELSE /\ \E v \in SlRead(index) : slResult' = Res("remove", "some", v)
            /\ slSlots' = [i \in DOMAIN slSlots |->
                              IF i < index THEN slSlots[i]
                              ELSE IF i < slLen - 1 /\ (i + 1) \in DOMAIN slSlots
                                   THEN slSlots[i + 1]
                              ELSE IF i <= slLen - 1 THEN Uninit
                              ELSE slSlots[i]]
            /\ slOobW' = slOobW \cup SlOutside(index, slLen - 1)
            /\ slLen' = IF slLen = 0 THEN 0 ELSE slLen - 1
    /\ UNCHANGED <<slBuf, slCap, slDealloc, slUaf>>
    /\ ItSame
    /\ slRound' = FALSE
    /\ slArgs' = [idx |-> index, elem |-> 0]
    /\ slBefore' = <<>>
    /\ SlOffReference
    /\ SlFrame

\* SequenceList::remove: reads slot index, then ptr::copy moves the slots
\* [index + 1, len) to [index, len - 1).  A slot copied from outside the
\* buffer receives junk.
SlRemove(index) ==
    /\ SlLive
    /\ IF index >= slLen
       THEN /\ slResult' = Res("remove", "panic", 0)
            /\ UNCHANGED <<slSlots, slLen, slOobW>>
       ELSE /\ \E v \in SlRead(index) : slResult' = Res("remove", "some", v)
            /\ \E junk \in (IF slLen > slCap THEN Elems ELSE {Uninit}) :
                   slSlots' = [i \in DOMAIN slSlots |->
                                  IF i < index THEN slSlots[i]
                                  ELSE IF i < slLen - 1
                                       THEN (IF (i + 1) \in DOMAIN slSlots
                                             THEN slSlots[i + 1] ELSE junk)
                                  ELSE IF i = slLen - 1 THEN Uninit
                                  ELSE slSlots[i]]
            /\ slOobW' = slOobW \cup SlOutside(index, slLen - 1)
            /\ slLen' = slLen - 1
    /\ UNCHANGED <<slBuf, slCap, slDealloc, slUaf>>
    /\ ItSame
    /\ slRound' = (/\ slResult = Res("insert", "ok", 0)
                   /\ slLen <= slCap
                   /\ slArgs.idx = index)
    /\ slArgs' = [idx |-> index, elem |-> IF slRound' THEN slArgs.elem ELSE 0]
    /\ slBefore' = IF slRound' THEN slBefore ELSE <<>>
    /\ slPlain' = (slPlain /\ index < slLen)
    /\ slAbs' = IF slPlain' THEN SeqRemove(slAbs, index) ELSE <<>>
    /\ slAbsRes' = IF slPlain' THEN slAbs[index + 1] ELSE 0
    /\ SlFrame

\* Index for SequenceList: list[idx]
SlIndex(idx) ==
    /\ SlLive
    /\ IF idx >= slLen
       THEN slResult' = Res("index", "panic", 0)
       ELSE \E v \in SlRead(idx) : slResult' = Res("index", "some", v)
    /\ UNCHANGED <<slBuf, slCap, slLen, slSlots, slOobW, slDealloc, slUaf>>
    /\ ItSame
    /\ SlNoted(idx, 0)
    /\ slPlain' = (slPlain /\ idx < slLen)
    /\ slAbs' = IF slPlain' THEN slAbs ELSE <<>>
    /\ slAbsRes' = IF slPlain' THEN slAbs[idx + 1] ELSE 0
    /\ SlFrame

\* IndexMut for SequenceList, used as list[idx] = e
SlIndexMut(idx, e) ==
    /\ SlLive
    /\ IF idx >= slLen
       THEN /\ slResult' = Res("index_mut", "panic", 0)
            /\ UNCHANGED slSlots
       ELSE /\ slResult' = Res("index_mut", "ok", 0)
            /\ slSlots' = [i \in DOMAIN slSlots |-> IF i = idx THEN e ELSE slSlots[i]]
    /\ UNCHANGED <<slBuf, slCap, slLen, slOobW, slDealloc, slUaf>>
    /\ ItSame
    /\ SlNoted(idx, e)
    /\ slPlain' = (slPlain /\ idx < slLen)
    /\ slAbs' = IF slPlain' THEN [slAbs EXCEPT ![idx + 1] = e] ELSE <<>>
    /\ slAbsRes' = 0
    /\ SlFrame

\* The dealloc call of both Drop impls: made whatever the capacity.
SlDeallocCall ==
    IF slCap = 0
    THEN [slDealloc EXCEPT !.sentinel = @ + 1]
    ELSE [slDealloc EXCEPT !.real = @ + 1]

\* Drop for SequenceList: drop_in_place of the slice [0, len), then dealloc
SlDropBody ==
    /\ slSlots' = SlAfterDrop(0, slLen)
    /\ slBuf' = "freed"
    /\ slDealloc' = SlDeallocCall
    /\ UNCHANGED <<slCap, slLen, slOobW, slUaf>>

SlDrop ==
    /\ SlLive
    /\ SlDropBody
    /\ slResult' = Res("drop", "ok", 0)
    /\ ItSame
    /\ SlNoted(-1, 0)
    /\ SlOffReference
    /\ SlFrame

\* IntoIterator for SequenceList: the iterator copies arr, len and cap out
\* of self; self is still owned by into_iter and is dropped when it returns.
SlIntoIter ==
    /\ SlLive
    /\ itState' = "live"
    /\ itHead' = 0
    /\ itTail' = slLen
    /\ itLen' = slLen
    /\ itOrig' = SlContents
    /\ itLog' = <<>>
    /\ itKilled' = [k \in 1..slLen |-> k - 1]
    /\ SlDropBody
    /\ slResult' = Res("into_iter", "ok", 0)
    /\ SlNoted(-1, 0)
    /\ SlOffReference
    /\ SlFrame

\* IterOwned::next
ItNext ==
    /\ itState = "live"
    /\ IF itLen = 0
       THEN /\ slResult' = Res("next", "none", 0)
            /\ UNCHANGED <<itHead, itLen, itLog, slUaf>>
       ELSE /\ itHead' = itHead + 1
            /\ itLen' = itLen - 1
            /\ \E v \in SlRead(itHead) :
                   /\ slResult' = Res("next", "some", v)
                   /\ itLog' = Append(itLog, [dir |-> "front", idx |-> itHead, val |-> v])
            /\ slUaf' = (slUaf \/ slBuf = "freed")
    /\ UNCHANGED <<slBuf, slCap, slLen, slSlots, slOobW, slDealloc>>
    /\ UNCHANGED <<itState, itTail, itOrig, itKilled>>
    /\ UNCHANGED <<slArgs, slBefore, slRound, slPlain, slAbs, slAbsRes>>
    /\ SlFrame

\* IterOwned::next_back: reads at tail, then steps tail back
ItNextBack ==
    /\ itState = "live"
    /\ IF itLen = 0
       THEN /\ slResult' = Res("next_back", "none", 0)
            /\ UNCHANGED <<itTail, itLen, itLog, slUaf>>
       ELSE /\ itTail' = itTail - 1
            /\ itLen' = itLen - 1
            /\ \E v \in SlRead(itTail) :
                   /\ slResult' = Res("next_back", "some", v)
                   /\ itLog' = Append(itLog, [dir |-> "back", idx |-> itTail, val |-> v])
            /\ slUaf' = (slUaf \/ slBuf = "freed")
    /\ UNCHANGED <<slBuf, slCap, slLen, slSlots, slOobW, slDealloc>>
    /\ UNCHANGED <<itState, itHead, itOrig, itKilled>>
    /\ UNCHANGED <<slArgs, slBefore, slRound, slPlain, slAbs, slAbsRes>>
    /\ SlFrame

\* Drop for IterOwned: drop_in_place of the len slots from head, then dealloc
ItDrop ==
    /\ itState = "live"
    /\ itState' = "dropped"
    /\ itKilled' = itKilled \o [k \in 1..itLen |-> itHead + k - 1]
    /\ slSlots' = SlAfterDrop(itHead, itLen)
    /\ slUaf' = (slUaf \/ (itLen > 0 /\ slBuf = "freed"))
    /\ slBuf' = "freed"
    /\ slDealloc' = SlDeallocCall
    /\ slResult' = Res("drop_iter", "ok", 0)
    /\ UNCHANGED <<slCap, slLen, slOobW>>
    /\ UNCHANGED <<itHead, itTail, itLen, itOrig, itLog>>
    /\ UNCHANGED <<slArgs, slBefore, slRound, slPlain, slAbs, slAbsRes>>
    /\ SlFrame

\* SequenceList::new after the previous list and its iterator are gone
SlNew(capacity) ==
    /\ slBuf = "freed"
    /\ itState # "live"
    /\ slBuf' = SlFresh(capacity).buf
    /\ slCap' = SlFresh(capacity).cap
    /\ slLen' = SlFresh(capacity).len
    /\ slSlots' = SlFresh(capacity).slots
    /\ slOobW' = {}
    /\ slResult' = Res("new", "ok", 0)
    /\ slDealloc' = [real |-> 0, sentinel |-> 0]
    /\ slUaf' = FALSE
    /\ itState' = "none"
    /\ itHead' = 0
    /\ itTail' = 0
    /\ itLen' = 0
    /\ itOrig' = <<>>
    /\ itLog' = <<>>
    /\ itKilled' = <<>>
    /\ SlNoted(-1, 0)
    /\ slPlain' = TRUE
    /\ slAbs' = <<>>
    /\ slAbsRes' = 0
    /\ SlFrame

\* The indices the callers pass: every valid one and the first invalid ones.
SlIndexes == 0..(MaxCap + MaxOver + 1)

NextSL ==
    \/ \E e \in Elems : SlPush(e)
    \/ SlPop
    \/ SlClear
    \/ \E i \in SlIndexes, e \in Elems : SlInsert(i, e)
    \/ \E i \in SlIndexes : SlRemove(i)
    \/ \E i \in SlIndexes : SlIndex(i)
    \/ \E i \in SlIndexes, e \in Elems : SlIndexMut(i, e)
    \/ SlDrop
    \/ SlIntoIter
    \/ ItNext
    \/ ItNextBack
    \/ ItDrop
    \/ \E c \in 0..MaxCap : SlNew(c)

\* The list's own methods, without the owning iterator.
NextSLList ==
    \/ \E e \in Elems : SlPush(e)
    \/ SlPop
    \/ SlClear
    \/ \E i \in SlIndexes, e \in Elems : SlInsert(i, e)
    \/ \E i \in SlIndexes : SlRemove(i)
    \/ \E i \in SlIndexes : SlIndex(i)
    \/ \E i \in SlIndexes, e \in Elems : SlIndexMut(i, e)
    \/ SlDrop
    \/ \E c \in 0..MaxCap : SlNew(c)

\* ---------------------------------------------------------------- LinkedList
\* NonNull::dangling(): the head of an empty list, no node.
Dangling == 0

\* The addresses Node::alloc can return.
NodeIds == 1..MaxNodes

\* The element values given to the list (T: Ord).
Vals == 1..MaxVal

\* The memory of a node that is not allocated.
NoNode == [live |-> FALSE, elem |-> 0, prev |-> Dangling, next |-> Dangling]

\* The allocated nodes.
LlLiveSet == {n \in NodeIds : llNodes[n].live}

\* Node::alloc: the address of the new node (the lowest one not in use).
LlAllocId == CHOOSE n \in NodeIds \ LlLiveSet : \A m \in NodeIds \ LlLiveSet : n <= m

\* The memory of an allocated node that no pointer leads to any more: it
\* stays allocated and its contents can never be read again.
LostNode == [live |-> TRUE, elem |-> 0, prev |-> Dangling, next |-> Dangling]

\* Node::dealloc
NodeDealloc(nodes, ptr) == [nodes EXCEPT ![ptr] = NoNode]

\* The heap once the list's head dangles: the nodes in freed are deallocated,
\* every other allocated node is lost.
HeapWithoutList(nodes, freed) ==
    [n \in NodeIds |-> IF n \in freed \/ ~nodes[n].live THEN NoNode ELSE LostNode]

\* Node::delete: prev_ptr.next = next_ptr; next_ptr.prev = prev_ptr
NodeDelete(nodes, ptr) ==
    [nodes EXCEPT ![nodes[ptr].prev].next = nodes[ptr].next,
                  ![nodes[ptr].next].prev = nodes[ptr].prev]

\* Node::insert: allocates the node n between prev and next;
\* prev.next = n; next.prev = n
NodeInsert(nodes, n, elem, prev, next) ==
    [[nodes EXCEPT ![n] = [live |-> TRUE, elem |-> elem, prev |-> prev, next |-> next]]
        EXCEPT ![prev].next = n, ![next].prev = n]

\* LinkedList::init: one self-linked node, the head, len = 1
LlInitNode(elem) ==
    [head |-> LlAllocId,
     len |-> 1,
     nodes |-> [llNodes EXCEPT ![LlAllocId] =
                   [live |-> TRUE, elem |-> elem, prev |-> LlAllocId, next |-> LlAllocId]]]

\* A push_back that links the new node after the head instead of before it.
LlAfterPushBackAtHead(elem) ==
    IF llLen = 0
    THEN LlInitNode(elem)
    ELSE [head |-> llHead,
          len |-> llLen + 1,
          nodes |-> NodeInsert(llNodes, LlAllocId, elem, llHead, llNodes[llHead].next)]

\* LinkedList::push_back: the list it leaves
LlAfterPushBack(elem) ==
    IF llLen = 0
    THEN LlInitNode(elem)
    ELSE [head |-> llHead,
          len |-> llLen + 1,
          nodes |-> NodeInsert(llNodes, LlAllocId, elem, llNodes[llHead].prev, llHead)]

\* The node reached from ptr by following next k times.
RECURSIVE LlWalk(_, _)
LlWalk(ptr, k) == IF k = 0 THEN ptr ELSE LlWalk(llNodes[ptr].next, k - 1)

\* The node reached from ptr by following prev k times.
RECURSIVE LlWalkBack(_, _)
LlWalkBack(ptr, k) == IF k = 0 THEN ptr ELSE LlWalkBack(llNodes[ptr].prev, k - 1)

\* The scan of ordered_insert: at most n steps from ptr along next, stopping
\* at the first node whose element is less than elem.
RECURSIVE LlOrdScan(_, _, _)
LlOrdScan(ptr, n, elem) ==
    IF n = 0 THEN ptr
    ELSE IF elem > llNodes[ptr].elem THEN ptr
    ELSE LlOrdScan(llNodes[ptr].next, n - 1, elem)

\* Forward iteration: iter() and next() until None (RawNodeIter::next_front
\* yields len nodes along next, from the head).
LlForward == [k \in 1..llLen |-> llNodes[LlWalk(llHead, k - 1)].elem]

\* The other containers are untouched by the list's operations.
LlFrame == UNCHANGED <<rdVars, slVars, lbVars, rbIts>>

\* A node can still be allocated (the bound of the model's heap).
LlRoom == Cardinality(LlLiveSet) < MaxNodes

\* LinkedList::new
LlInit ==
    /\ llHead = Dangling
    /\ llLen = 0
    /\ llNodes = [n \in NodeIds |-> NoNode]
    /\ llGone = FALSE
    /\ llResult = Res("new", "ok", 0)
    /\ llIns = <<>>
    /\ llOrdOnly = TRUE
    /\ llPlain = TRUE
    /\ llAbs = <<>>
    /\ llAbsRes = 0
    /\ llPushes = 0
    /\ llPops = 0
    /\ lbKind = "none"
    /\ lbHead = Dangling
    /\ lbTail = Dangling
    /\ lbLen = 0
    /\ lbResult = Res("none", "ok", 0)
    /\ lbLog = <<>>

\* LinkedList::push_back
LlPushBack(elem) ==
    /\ ~llGone
    /\ LlRoom
    /\ llPushes < MaxListPushes
    /\ llHead' = LlAfterPushBack(elem).head
    /\ llLen' = LlAfterPushBack(elem).len
    /\ llNodes' = LlAfterPushBack(elem).nodes
    /\ llResult' = Res("push_back", "ok", 0)
    /\ llOrdOnly' = FALSE
    /\ llIns' = <<>>
    /\ llAbs' = IF llPlain THEN Append(llAbs, elem) ELSE <<>>
    /\ llAbsRes' = 0
    /\ llPushes' = IF llPlain THEN llPushes + 1 ELSE 0
    /\ UNCHANGED <<llPlain, llPops>>
    /\ UNCHANGED llGone
    /\ LlFrame

\* LinkedList::push_front: push_back, then head = head.prev
LlPushFront(elem) ==
    /\ ~llGone
    /\ LlRoom
    /\ llPushes < MaxListPushes
    /\ llNodes' = LlAfterPushBack(elem).nodes
    /\ llLen' = LlAfterPushBack(elem).len
    /\ llHead' = llNodes'[LlAfterPushBack(elem).head].prev
    /\ llResult' = Res("push_front", "ok", 0)
    /\ llOrdOnly' = FALSE
    /\ llIns' = <<>>
    /\ llAbs' = IF llPlain THEN <<elem>> \o llAbs ELSE <<>>
    /\ llAbsRes' = 0
    /\ llPushes' = IF llPlain THEN llPushes + 1 ELSE 0
    /\ UNCHANGED <<llPlain, llPops>>
    /\ UNCHANGED llGone
    /\ LlFrame

\* LinkedList::deinit: the sole node is consumed, head dangles, len = 0
LlDeinit(op) ==
    /\ llLen' = 0
    /\ llHead' = Dangling
    /\ llResult' = Res(op, "some", llNodes[llHead].elem)
    /\ llNodes' = HeapWithoutList(NodeDealloc(llNodes, llHead), {llHead})

\* LinkedList::pop_back
LlPopBack ==
    /\ ~llGone
    /\ IF llLen = 0
       THEN /\ llResult' = Res("pop_back", "none", 0)
            /\ UNCHANGED <<llHead, llLen, llNodes>>
       ELSE IF llLen = 1
       THEN LlDeinit("pop_back")
       ELSE /\ llLen' = llLen - 1
            /\ llResult' = Res("pop_back", "some", llNodes[llNodes[llHead].prev].elem)
            /\ llNodes' = NodeDealloc(NodeDelete(llNodes, llNodes[llHead].prev),
                                      llNodes[llHead].prev)
            /\ UNCHANGED llHead
    /\ llOrdOnly' = FALSE
    /\ llIns' = <<>>
    /\ llAbs' = IF llPlain /\ llAbs # <<>> THEN SubSeq(llAbs, 1, Len(llAbs) - 1) ELSE <<>>
    /\ llAbsRes' = IF llPlain /\ llAbs # <<>> THEN llAbs[Len(llAbs)] ELSE 0
    /\ llPops' = IF llPlain /\ llLen > 0 THEN llPops + 1 ELSE llPops
    /\ UNCHANGED <<llPlain, llPushes>>
    /\ UNCHANGED llGone
    /\ LlFrame

\* LinkedList::pop_front
LlPopFront ==
    /\ ~llGone
    /\ IF llLen = 0
       THEN /\ llResult' = Res("pop_front", "none", 0)
            /\ UNCHANGED <<llHead, llLen, llNodes>>
       ELSE IF llLen = 1
       THEN LlDeinit("pop_front")
       ELSE /\ llLen' = llLen - 1
            /\ llHead' = llNodes[llHead].next
            /\ llResult' = Res("pop_front", "some", llNodes[llHead].elem)
            /\ llNodes' = NodeDealloc(NodeDelete(llNodes, llHead), llHead)
    /\ llOrdOnly' = FALSE
    /\ llIns' = <<>>
    /\ llAbs' = IF llPlain /\ llAbs # <<>> THEN Tail(llAbs) ELSE <<>>
    /\ llAbsRes' = IF llPlain /\ llAbs # <<>> THEN Head(llAbs) ELSE 0
    /\ llPops' = IF llPlain /\ llLen > 0 THEN llPops + 1 ELSE llPops
    /\ UNCHANGED <<llPlain, llPushes>>
    /\ UNCHANGED llGone
    /\ LlFrame

\* LinkedList::clear: frees the len nodes met from the head along next
LlClearBody ==
    /\ llHead' = Dangling
    /\ llLen' = 0
    /\ llNodes' = HeapWithoutList(llNodes, {LlWalk(llHead, k) : k \in 0..(llLen - 1)})

LlClear ==
    /\ ~llGone
    /\ LlClearBody
    /\ llResult' = Res("clear", "ok", 0)
    /\ llOrdOnly' = FALSE
    /\ llIns' = <<>>
    /\ llPlain' = FALSE
    /\ llAbs' = <<>>
    /\ llAbsRes' = 0
    /\ llPushes' = 0
    /\ llPops' = 0
    /\ UNCHANGED llGone
    /\ LlFrame

\* Drop for LinkedList: clear()
LlDrop ==
    /\ ~llGone
    /\ LlClearBody
    /\ llGone' = TRUE
    /\ llResult' = Res("drop", "ok", 0)
    /\ llPlain' = FALSE
    /\ llAbs' = <<>>
    /\ llAbsRes' = 0
    /\ llPushes' = 0
    /\ llPops' = 0
    /\ UNCHANGED <<llIns, llOrdOnly>>
    /\ LlFrame

\* LinkedList::ordered_insert: on a non-empty list the new node is linked
\* after the node the scan stops at; len is assigned only by init.
LlOrderedInsert(elem) ==
    /\ ~llGone
    /\ LlRoom
    /\ IF llLen = 0
       THEN /\ llHead' = LlInitNode(elem).head
            /\ llLen' = LlInitNode(elem).len
            /\ llNodes' = LlInitNode(elem).nodes
       ELSE /\ llNodes' = NodeInsert(llNodes, LlAllocId, elem,
                                     LlOrdScan(llHead, llLen, elem),
                                     llNodes[LlOrdScan(llHead, llLen, elem)].next)
            /\ UNCHANGED <<llHead, llLen>>
    /\ llResult' = Res("ordered_insert", "ok", 0)
    /\ llIns' = IF llOrdOnly THEN Append(llIns, elem) ELSE <<>>
    /\ llPlain' = FALSE
    /\ llAbs' = <<>>
    /\ llAbsRes' = 0
    /\ llPushes' = 0
    /\ llPops' = 0
    /\ UNCHANGED <<llGone, llOrdOnly>>
    /\ LlFrame

\* LinkedList::new after the previous list is gone (on a fresh heap)
LlNew ==
    /\ llGone
    /\ llHead' = Dangling
    /\ llLen' = 0
    /\ llNodes' = [n \in NodeIds |-> NoNode]
    /\ llGone' = FALSE
    /\ llResult' = Res("new", "ok", 0)
    /\ llIns' = <<>>
    /\ llOrdOnly' = TRUE
    /\ llPlain' = TRUE
    /\ llAbs' = <<>>
    /\ llAbsRes' = 0
    /\ llPushes' = 0
    /\ llPops' = 0
    /\ LlFrame

NextLL ==
    \/ \E e \in Vals : LlPushBack(e)
    \/ \E e \in Vals : LlPushFront(e)
    \/ \E e \in Vals : LlOrderedInsert(e)
    \/ LlPopBack
    \/ LlPopFront
    \/ LlClear
    \/ LlDrop
    \/ LlNew

\* ------------------------------------------------------------ LinkedQueue
\* LinkedQueue(LinkedList): the queue is the list it wraps.
\* LinkedQueue::len: self.0.len()
LqLen == llLen

\* LinkedQueue::push: self.0.push_back(elem)
LqPush(elem) == LlPushBack(elem)

\* A pop that takes the element pushed last.
LqPopNewest == LlPopBack

\* LinkedQueue::pop: self.0.pop_front()
LqPop == LlPopFront

NextLQ ==
    \/ \E e \in Vals : LqPush(e)
    \/ LqPop

\* --------------------------------------------- LinkedList: borrow iterators
\* No borrow of the list is live: what every method taking &mut self needs.
LbIdle == lbKind = "none"

\* LinkedList::iter / iter_mut: RawNodeIter { head: self.head, tail: self.head,
\* len: self.len }
LbStart(kind) ==
    /\ ~llGone
    /\ LbIdle
    /\ lbKind' = kind
    /\ lbHead' = llHead
    /\ lbTail' = llHead
    /\ lbLen' = llLen
    /\ lbResult' = Res(kind, "ok", 0)
    /\ lbLog' = <<>>
    /\ UNCHANGED <<rdVars, slVars, llVars, rbIts>>

\* LinkedList::iter(&self)
LlIter == LbStart("iter")

\* LinkedList::iter_mut(&mut self)
LlIterMut == LbStart("iter_mut")

\* RawNodeIter::next_front, reached through Iter::next and IterMut::next
LbNext ==
    /\ ~LbIdle
    /\ IF lbLen = 0
       THEN /\ lbResult' = Res("next", "none", 0)
            /\ UNCHANGED <<lbHead, lbTail, lbLen, lbLog>>
       ELSE /\ lbResult' = Res("next", "some", llNodes[lbHead].elem)
            /\ lbLog' = Append(lbLog, [dir |-> "front", node |-> lbHead,
                                       val |-> llNodes[lbHead].elem])
            /\ lbLen' = lbLen - 1
            /\ IF lbLen = 1
               THEN lbHead' = Dangling /\ lbTail' = Dangling
               ELSE lbHead' = llNodes[lbHead].next /\ UNCHANGED lbTail
    /\ UNCHANGED <<lbKind, rdVars, slVars, llVars, rbIts>>

\* RawNodeIter::next_back, reached through Iter::next_back and IterMut::next_back:
\* with len = 1 it yields head, otherwise it yields tail and steps tail to prev
LbNextBack ==
    /\ ~LbIdle
    /\ IF lbLen = 0
       THEN /\ lbResult' = Res("next_back", "none", 0)
            /\ UNCHANGED <<lbHead, lbTail, lbLen, lbLog>>
       ELSE IF lbLen = 1
       THEN /\ lbResult' = Res("next_back", "some", llNodes[lbHead].elem)
            /\ lbLog' = Append(lbLog, [dir |-> "back", node |-> lbHead,
                                       val |-> llNodes[lbHead].elem])
            /\ lbLen' = 0
            /\ lbHead' = Dangling
            /\ lbTail' = Dangling
       ELSE /\ lbResult' = Res("next_back", "some", llNodes[lbTail].elem)
            /\ lbLog' = Append(lbLog, [dir |-> "back", node |-> lbTail,
                                       val |-> llNodes[lbTail].elem])
            /\ lbLen' = lbLen - 1
            /\ lbTail' = llNodes[lbTail].prev
            /\ UNCHANGED lbHead
    /\ UNCHANGED <<lbKind, rdVars, slVars, llVars, rbIts>>

\* The iterator goes out of scope: the borrow of the list ends.
LbDrop ==
    /\ ~LbIdle
    /\ lbKind' = "none"
    /\ lbHead' = Dangling
    /\ lbTail' = Dangling
    /\ lbLen' = 0
    /\ lbResult' = Res("none", "ok", 0)
    /\ lbLog' = <<>>
    /\ UNCHANGED <<rdVars, slVars, llVars, rbIts>>

\* The list's operations take &mut self: they need the borrow to have ended.
NextLLIter ==
    \/ \E e \in Vals : LbIdle /\ LlPushBack(e)
    \/ \E e \in Vals : LbIdle /\ LlPushFront(e)
    \/ \E e \in Vals : LbIdle /\ LlOrderedInsert(e)
    \/ LbIdle /\ LlPopBack
    \/ LbIdle /\ LlPopFront
    \/ LbIdle /\ LlClear
    \/ LbIdle /\ LlDrop
    \/ LbIdle /\ LlNew
    \/ LlIter
    \/ LlIterMut
    \/ LbNext
    \/ LbNextBack
    \/ LbDrop

\* ------------------------------------------------------------ specifications
\* Each specification constructs its own container (the bounded ones with
\* any capacity) and leaves the other containers as new(0) / new() return them.
InitRD ==
    /\ \E c \in 0..MaxCap : RdInit(c)
    /\ SlInit(0)
    /\ LlInit

SpecRD == InitRD /\ [][NextRD]_vars

InitSL ==
    /\ RdInit(0)
    /\ \E c \in 0..MaxCap : SlInit(c)
    /\ LlInit

SpecSL == InitSL /\ [][NextSL]_vars

\* The list used through its own methods only (no into_iter).
SpecSLList == InitSL /\ [][NextSLList]_vars

InitLL ==
    /\ RdInit(0)
    /\ SlInit(0)
    /\ LlInit

SpecLL == InitLL /\ [][NextLL]_vars

\* The deque is filled by pushes and lent to borrow iterators; push_back and
\* push_front take &mut self and need every borrow to have ended.
NextRDIter ==
    \/ \E e \in Elems : RbIdle /\ RdPushBack(e)
    \/ \E e \in Elems : RbIdle /\ RdPushFront(e)
    \/ RdIter
    \/ RdIterMut
    \/ \E it \in BagToSet(rbIts) : RbNext(it)
    \/ \E it \in BagToSet(rbIts) : RbNextBack(it)
    \/ \E it \in BagToSet(rbIts) : RbDrop(it)

SpecRDIter == InitRD /\ [][NextRDIter]_vars

\* The deque with all its methods and one read-only borrow iterator at a
\* time, taken while len <= cap. MaxWalkPushes pushes fill a deque of
\* capacity MaxCap and wrap its window.
NextRDWalk ==
    \/ RbIdle /\ rdPushes < MaxWalkPushes /\ (\E e \in Elems : RdPushBack(e))
    \/ RbIdle /\ rdPushes < MaxWalkPushes /\ (\E e \in Elems : RdPushFront(e))
    \/ RbIdle /\ RdPopBack
    \/ RbIdle /\ RdPopFront
    \/ RbIdle /\ RdClear
    \/ RbIdle /\ RdDrop
    \/ RbIdle /\ (\E c \in 0..MaxCap : RdNew(c))
    \/ RbIdle /\ rdLen <= rdCap /\ RdIter
    \/ \E it \in BagToSet(rbIts) : RbNext(it)
    \/ \E it \in BagToSet(rbIts) : RbNextBack(it)
    \/ \E it \in BagToSet(rbIts) : RbDrop(it)

SpecRDWalk == InitRD /\ [][NextRDWalk]_vars

\* A container nobody has used since new(0) / new() returned it.
RdUnused == rdResult.op = "new" /\ rdCap = 0
SlUnused == slResult.op = "new" /\ slCap = 0
LlUnused == llResult.op = "new"

\* The three containers in one program that uses one of them at a time (the
\* behaviours of SpecRD, SpecSLList and SpecLL together).
InitAny == InitRD \/ InitSL \/ InitLL

NextAny ==
    \/ SlUnused /\ LlUnused /\ NextRD
    \/ RdUnused /\ LlUnused /\ NextSLList
    \/ RdUnused /\ SlUnused /\ NextLL

SpecAny == InitAny /\ [][NextAny]_vars

\* The queue used through push and pop.
SpecLQ == InitLL /\ [][NextLQ]_vars

\* The list together with one borrow iterator at a time.
SpecLLIter == InitLL /\ [][NextLLIter]_vars

\* ------------------------------------------------------- RingDeque: claims

\* C1: for capacity >= 1, as long as only pushes and pops were called and no
\* push was issued while len = cap, every pop returns what the abstract
\* double-ended sequence returns (Some of the same value, or None for both),
\* also when head or tail have wrapped, and len is the number of pushes
\* minus the number of successful pops.
C1_DequeRefinesSequence ==
    (RdLive /\ rdPlain /\ rdCap >= 1) =>
        /\ rdLen = rdPushes - rdPops
        /\ rdLen = Len(rdAbs)
        /\ rdResult.op \in {"pop_front", "pop_back"} =>
               /\ rdResult.val = rdAbsRes
               /\ (rdResult.out = "some") = (rdAbsRes # 0)

\* C1 witness: a pop_front returned a value after more pushes than the
\* buffer has slots, with the window wrapped past the end of the buffer.
C1_Witness ==
    /\ RdLive /\ rdPlain /\ rdCap >= 2
    /\ rdResult.op = "pop_front" /\ rdResult.out = "some"
    /\ rdPushes > rdCap
    /\ rdLen >= 2 /\ rdHead + rdLen > rdCap

\* C2: push_front called while len = cap panics and leaves head, tail, len
\* and every slot unchanged.
C2_PushFrontFullAborts ==
    [][(rdResult'.op = "push_front" /\ rdLen = rdCap) =>
          /\ rdResult'.out = "panic"
          /\ UNCHANGED <<rdHead, rdTail, rdLen, rdSlots>>]_vars

\* C3: in every reachable state 0 <= len <= cap and the initialized slots
\* are exactly the len slots from head, advancing modulo cap.
C3_WindowInvariant ==
    RdLive =>
        /\ 0 <= rdLen /\ rdLen <= rdCap
        /\ \A i \in DOMAIN rdSlots :
               (rdSlots[i] # Uninit) <=> (\E k \in 0..(rdLen - 1) : RdWindowIdx(k) = i)

\* C4: clear (and drop, which calls it) destroys exactly the len live
\* slots of the circular window, each once, and no slot outside the buffer.
\* Stated for the states with len <= cap, which include the full and
\* wrapped one (head = tail # 0, len = cap).
C4_ClearDestroysWindow ==
    [][(rdResult'.op \in {"clear", "drop"} /\ rdLen <= rdCap) =>
          /\ Len(rdDropLog') = rdLen
          /\ \A j \in DOMAIN rdDropLog' : rdDropLog'[j] < rdCap
          /\ \A k \in 0..(rdLen - 1) :
                 Cardinality({j \in DOMAIN rdDropLog' :
                                 rdDropLog'[j] = RdWindowIdx(k)}) = 1]_vars

\* ---------------------------------------------------- SequenceList: claims

\* Everything that remained of the list is torn down.
SlAllGone == itState = "dropped" \/ (itState = "none" /\ slBuf = "freed")

\* C5: the backing buffer of a list of capacity >= 1 is deallocated exactly
\* once: by the list's teardown if it was never converted, otherwise by the
\* owning iterator only (so it is still allocated while the iterator is
\* live); it is never released twice and never accessed after its release.
C5_BufferFreedOnce ==
    slCap >= 1 =>
        /\ slDealloc.real <= 1
        /\ itState = "live" => slBuf = "allocated"
        /\ SlAllGone => slDealloc.real = 1
        /\ ~slUaf

\* How often slot i was yielded by the iterator / destroyed since into_iter.
ItYields(i) == Cardinality({j \in DOMAIN itLog : itLog[j].idx = i})
ItKills(i) == Cardinality({j \in DOMAIN itKilled : itKilled[j] = i})

\* C6: once the owning iterator is discarded, every element that was in the
\* list at into_iter has been yielded exactly once or destroyed exactly
\* once, never both, and no slot outside those elements was read or destroyed.
C6_IterElementsOnce ==
    itState = "dropped" =>
        /\ \A i \in 0..(Len(itOrig) - 1) : ItYields(i) + ItKills(i) = 1
        /\ \A j \in DOMAIN itLog : itLog[j].idx \in 0..(Len(itOrig) - 1)
        /\ \A j \in DOMAIN itKilled : itKilled[j] \in 0..(Len(itOrig) - 1)

\* How many of the first j calls that yielded were next / next_back.
ItFronts(j) == Cardinality({i \in 1..j : itLog[i].dir = "front"})
ItBacks(j) == Cardinality({i \in 1..j : itLog[i].dir = "back"})

\* C7: over contents e0..e(n-1) the k-th next yields the k-th element from
\* the front and the k-th next_back the k-th element from the back (the
\* first next_back yields e(n-1)); next and next_back together yield n items
\* and only then None.
C7_IterYieldsInOrder ==
    (itState = "live" /\ \A k \in DOMAIN itOrig : itOrig[k] \in Elems) =>
        /\ \A j \in DOMAIN itLog :
              /\ itLog[j].dir = "front" =>
                    /\ itLog[j].idx = ItFronts(j) - 1
                    /\ itLog[j].val = itOrig[ItFronts(j)]
              /\ itLog[j].dir = "back" =>
                    /\ itLog[j].idx = Len(itOrig) - ItBacks(j)
                    /\ itLog[j].val = itOrig[Len(itOrig) - ItBacks(j) + 1]
        /\ Len(itLog) <= Len(itOrig)
        /\ (slResult.op \in {"next", "next_back"} /\ slResult.out = "none") =>
               Len(itLog) = Len(itOrig)

\* C8: in every reachable state of the list len <= cap, the slots [0, len)
\* are initialized, the slots [len, cap) are not, and no write has landed at
\* a slot index >= cap.
C8_PrefixInvariant ==
    SlLive =>
        /\ slLen <= slCap
        /\ \A i \in DOMAIN slSlots : (slSlots[i] # Uninit) <=> (i < slLen)
        /\ slOobW = {}

\* ------------------------------------------------------- LinkedList: claims

\* How often v occurs in the sequence s.
Occurs(s, v) == Cardinality({k \in DOMAIN s : s[k] = v})

\* C9: starting from an empty list and calling only ordered_insert, forward
\* iteration yields a non-decreasing sequence that holds every inserted
\* value exactly once.
C9_OrderedInsertSorted ==
    (~llGone /\ llOrdOnly) =>
        /\ \A k \in 1..(Len(LlForward) - 1) : LlForward[k] <= LlForward[k + 1]
        /\ \A v \in Vals : Occurs(LlForward, v) = Occurs(llIns, v)

\* C10: the nodes form one ring of len nodes: len steps along next from the
\* head lead back to the head and no fewer do, the same along prev, prev and
\* next are inverse on every node, and len = 0 exactly when there is no node.
C10_RingInvariant ==
    ~llGone =>
        /\ (llLen = 0) <=> (LlLiveSet = {})
        /\ Cardinality(LlLiveSet) = llLen
        /\ llLen > 0 =>
              /\ LlWalk(llHead, llLen) = llHead
              /\ \A k \in 1..(llLen - 1) : LlWalk(llHead, k) # llHead
              /\ LlWalkBack(llHead, llLen) = llHead
              /\ \A k \in 1..(llLen - 1) : LlWalkBack(llHead, k) # llHead
        /\ \A n \in LlLiveSet :
              /\ llNodes[llNodes[n].next].prev = n
              /\ llNodes[llNodes[n].prev].next = n

\* ------------------------------------------------- LinkedList: claims C11, C12

\* C11: as long as only push_back, push_front, pop_front and pop_back were
\* called since new(), the list behaves as the abstract double-ended sequence:
\* forward iteration from the anchor yields the abstract sequence (so
\* push_back put its element last and kept the anchor, push_front put its
\* element first), len is its length, the anchor dangles exactly when it is
\* empty, and every pop returns what the abstract sequence returns (its first
\* or last element, None when it is empty).
C11_ListRefinesDeque ==
    (~llGone /\ llPlain) =>
        /\ llLen = Len(llAbs)
        /\ LlForward = llAbs
        /\ (llLen = 0) <=> (llHead = Dangling)
        /\ llResult.op \in {"pop_front", "pop_back"} =>
               IF llAbsRes = 0
               THEN llResult.out = "none"
               ELSE llResult.out = "some" /\ llResult.val = llAbsRes

\* push_back(2); push_front(1) gave [1, 2]; pop_front returned 1 and left [2].
C11_Witness ==
    /\ ~llGone
    /\ llPlain
    /\ llResult = Res("pop_front", "some", 1)
    /\ llAbs = <<2>>
    /\ LlForward = <<2>>

\* C12: on a list built by push_back, push_front, pop_front and pop_back,
\* repeated next_back on a fresh iter() or iter_mut() yields the mirror of
\* forward iteration: the k-th item is the element e(n-k) of the forward
\* order [e0..e(n-1)].
C12_BackwardMirrorsForward ==
    (llPlain /\ ~LbIdle /\ \A k \in DOMAIN lbLog : lbLog[k].dir = "back") =>
        \A k \in DOMAIN lbLog : lbLog[k].val = LlForward[llLen - k + 1]

\* ------------------------------------------- RingDeque: claims C13, C14, C15

\* C13: for a capacity C >= 1, the deque filled by C pushes from empty is
\* full; a push_back on a full deque aborts and leaves head, tail, len and
\* the slots unchanged; a pop on a full deque succeeds and leaves len = C - 1;
\* and a push_back at len = C - 1 succeeds and makes the deque full again.
C13_FullBoundary ==
    /\ [](RdLive /\ rdCap >= 1 /\ rdPlain /\ rdPops = 0 /\ rdPushes = rdCap => RdIsFull)
    /\ [][(RdLive /\ rdCap >= 1) =>
            /\ (rdLen = rdCap /\ rdResult'.op = "push_back") =>
                  /\ rdResult'.out = "panic"
                  /\ UNCHANGED <<rdHead, rdTail, rdLen, rdSlots>>
            /\ (rdLen = rdCap /\ rdResult'.op \in {"pop_front", "pop_back"}) =>
                  /\ rdResult'.out = "some"
                  /\ rdLen' = rdCap - 1
            /\ (rdLen = rdCap - 1 /\ rdResult'.op = "push_back") =>
                  /\ rdResult'.out = "ok"
                  /\ rdLen' = rdCap
                  /\ RdIsFull']_vars

\* A deque of capacity >= 2 was filled by push_back, a push_back on the full
\* deque was refused, one element was popped and one more push_back refilled it.
C13_Witness ==
    /\ RdLive
    /\ rdCap >= 2
    /\ ~rdPlain
    /\ rdPushes = rdCap + 1
    /\ rdPops = 1
    /\ rdResult = Res("push_back", "ok", 0)
    /\ RdIsFull
    /\ rdAbs = RdWindow

\* C14: on a deque of capacity 0 every push_back and every push_front fails
\* and every pop returns None; head, tail and len stay 0 and there is no slot
\* that could have been written.
C14_ZeroCapacity ==
    (RdLive /\ rdCap = 0) =>
        /\ rdHead = 0
        /\ rdTail = 0
        /\ rdLen = 0
        /\ rdSlots = <<>>
        /\ rdResult.op \in {"push_back", "push_front"} => rdResult.out = "panic"
        /\ rdResult.op \in {"pop_back", "pop_front"} => rdResult.out = "none"

\* push_front was called on a deque of capacity 0.
C14_Witness ==
    /\ RdLive
    /\ rdCap = 0
    /\ rdResult = Res("push_front", "panic", 0)
    /\ rdLen = 0

\* C15: std::alloc::dealloc is never called on the sentinel address of a
\* buffer of capacity 0, neither for a RingDeque nor for a SequenceList,
\* teardown included.
C15_SentinelNeverDeallocated ==
    /\ rdDealloc.sentinel = 0
    /\ slDealloc.sentinel = 0

\* --------------------------------------- SequenceList: claims C16, C17, C18

\* C16: when insert(i, x) on a list with len < cap and i <= len is followed
\* by remove(i), the remove returns x and the list has the length and the
\* contents it had before the insert.
C16_InsertRemoveRoundTrip ==
    slRound =>
        /\ slResult = Res("remove", "some", slArgs.elem)
        /\ slLen = Len(slBefore)
        /\ SlContents = slBefore

\* An element was inserted in the middle of a list of two and removed again.
C16_Witness ==
    /\ slRound
    /\ slArgs.idx = 1
    /\ Len(slBefore) = 2
    /\ slBefore[1] # slBefore[2]
    /\ slResult.val # slBefore[2]

\* C17: as long as the list was used within its capacity and with valid
\* indices since new(), its contents and length are those of the reference
\* sequence under push, pop, insert, remove and clear, pop and remove return
\* what the reference sequence returns, len <= cap, and the buffer is the one
\* new() allocated (clear does not change the capacity).
C17_ListRefinesSequence ==
    (SlLive /\ slPlain) =>
        /\ slLen = Len(slAbs)
        /\ SlContents = slAbs
        /\ slLen <= slCap
        /\ DOMAIN slSlots = 0..(slCap - 1)
        /\ slBuf = RawAlloc(slCap)
        /\ slOobW = {}
        /\ slResult.op \in {"pop", "remove"} =>
               IF slAbsRes = 0
               THEN slResult.out = "none"
               ELSE slResult.out = "some" /\ slResult.val = slAbsRes

\* remove(0) returned the first element of a list of three and left [2, 1].
C17_Witness ==
    /\ SlLive
    /\ slPlain
    /\ slResult.op = "remove"
    /\ slResult.out = "some"
    /\ slArgs.idx = 0
    /\ slAbs = <<2, 1>>
    /\ SlContents = <<2, 1>>

\* C18: push at len = cap, insert with index > len, remove with index >= len
\* and an indexed read or write with index >= len end in the panic, and the
\* step leaves the length, the slots and the buffer as they were.
C18_ErrorsLeaveListUnchanged ==
    [][(/\ SlLive
        /\ \/ slResult'.op = "push" /\ slLen = slCap
           \/ slResult'.op = "insert" /\ slArgs'.idx > slLen
           \/ slResult'.op \in {"remove", "index", "index_mut"} /\ slArgs'.idx >= slLen)
       => /\ slResult'.out = "panic"
          /\ UNCHANGED <<slLen, slSlots, slOobW, slBuf, slCap>>]_vars

\* list[idx] = e with idx = len was refused on a non-empty list.
C18_Witness ==
    /\ SlLive
    /\ slResult = Res("index_mut", "panic", 0)
    /\ slLen >= 1
    /\ slArgs.idx = slLen

\* ------------------------------------------------ all containers: claim C19

\* C19: a pop_front or pop_back step on an empty RingDeque or LinkedList and
\* a pop step on an empty SequenceList returns None and leaves the container
\* as it was: length, head and tail or anchor, and the memory.
C19_PopOnEmptyReturnsNone ==
    [][/\ (RdLive /\ rdLen = 0 /\ rdResult'.op \in {"pop_front", "pop_back"}) =>
             /\ rdResult'.out = "none"
             /\ UNCHANGED <<rdHead, rdTail, rdLen, rdSlots, rdBuf, rdCap>>
       /\ (~llGone /\ llLen = 0 /\ llResult'.op \in {"pop_front", "pop_back"}) =>
             /\ llResult'.out = "none"
             /\ UNCHANGED <<llHead, llLen, llNodes, llGone>>
       /\ (SlLive /\ slLen = 0 /\ slResult'.op = "pop") =>
             /\ slResult'.out = "none"
             /\ UNCHANGED <<slLen, slSlots, slBuf, slCap, slOobW>>]_vars

\* A deque that held elements was emptied by pops, and one more pop_front
\* returned None with head and tail away from slot 0.
C19_Witness ==
    /\ RdLive
    /\ rdResult = Res("pop_front", "none", 0)
    /\ rdLen = 0
    /\ rdPushes >= 1
    /\ rdPops = rdPushes
    /\ rdHead # 0
    /\ rdTail = rdHead

\* ------------------------------------------------- borrow iterators: claim C20

\* The slots whose references the iterator handed out.
RbOut(it) == it.fronts \o it.backs

\* C20: while a mutable iterator of the deque or of the list is live, no
\* other iterator of that container is live, and the mutable iterator has
\* handed out no slot / no node twice.
C20_MutableIteratorExclusive ==
    /\ \A it \in BagToSet(rbIts) :
          it.kind = "iter_mut" =>
              /\ BagCardinality(rbIts) = 1
              /\ \A a, b \in DOMAIN RbOut(it) : a # b => RbOut(it)[a] # RbOut(it)[b]
    /\ lbKind = "iter_mut" =>
          \A a, b \in DOMAIN lbLog : a # b => lbLog[a].node # lbLog[b].node

\* ------------------------------------------------- LinkedList: claims C21-C23

\* C21: every node the list can reach within its len steps from the anchor
\* is allocated (no node is dereferenced after it was freed), and once the
\* list was torn down (dropped directly, or as the list inside its owning
\* iterator after any number of next / next_back, which are pop_front /
\* pop_back) no node remains allocated.
C21_NodesFreedAtTeardown ==
    /\ ~llGone => \A k \in 0..(llLen - 1) : LlWalk(llHead, k) \in LlLiveSet
    /\ llGone => LlLiveSet = {}

\* C22: for a queue used through push and pop, len() is the number of
\* pushes minus the number of pops that returned an element, the queue holds
\* the pushed and not yet popped values in push order, and every pop step
\* returns and removes the oldest of them, or returns None on an empty queue.
C22_QueueIsFifo ==
    /\ [](/\ LqLen = llPushes - llPops
          /\ LlForward = llAbs)
    /\ [][llResult'.op \in {"pop_front", "pop_back"} =>
            IF llAbs = <<>>
            THEN /\ llResult'.out = "none"
                 /\ LqLen' = 0
            ELSE /\ llResult'.out = "some"
                 /\ llResult'.val = Head(llAbs)
                 /\ LlForward' = Tail(llAbs)]_vars

\* Three values were pushed, with 1 first and 2 second; the second pop
\* returned 2 and left one value.
C22_Witness ==
    /\ llPushes = 3
    /\ llPops = 2
    /\ LqLen = 1
    /\ llResult = Res("pop_front", "some", 2)
    /\ llAbs = <<1>>

\* The first node, in at most n steps from ptr along next, whose element is
\* not strictly greater than x (ptr after n steps when there is none).
RECURSIVE LlFirstNotGreater(_, _, _)
LlFirstNotGreater(ptr, n, x) ==
    IF n = 0 THEN ptr
    ELSE IF llNodes[ptr].elem <= x THEN ptr
    ELSE LlFirstNotGreater(llNodes[ptr].next, n - 1, x)

\* C23: an ordered_insert(x) step on a non-empty list links the new node
\* immediately before the first element, scanning forward from the anchor,
\* that is not strictly greater than x; it leaves the anchor unchanged and
\* increases len by exactly one.
C23_OrderedInsertSplicesBefore ==
    [][(~llGone /\ llLen > 0 /\ llResult'.op = "ordered_insert") =>
          LET n == LlAllocId
              at == LlFirstNotGreater(llHead, llLen, llNodes'[n].elem)
          IN /\ llNodes'[n].live
             /\ llNodes'[n].next = at
             /\ llNodes'[at].prev = n
             /\ llHead' = llHead
             /\ llLen' = llLen + 1]_vars

\* ------------------------------------------------- RingDeque: claims C24, C25

\* The slots successive pop_front calls read, starting with head at h.
RECURSIVE RdPopFrontOrder(_, _)
RdPopFrontOrder(h, n) ==
    IF n = 0 THEN <<>> ELSE <<h>> \o RdPopFrontOrder(NextIdx(h, rdCap), n - 1)

\* The slots successive pop_back calls read, starting with tail at t.
RECURSIVE RdPopBackOrder(_, _)
RdPopBackOrder(t, n) ==
    IF n = 0 THEN <<>>
    ELSE <<PrevIdx(t, rdCap)>> \o RdPopBackOrder(PrevIdx(t, rdCap), n - 1)

\* C24: an iterator taken from a deque with len <= cap walks the circular
\* window as the pops do: its next calls yield the slots pop_front would read,
\* in that order, its next_back calls the slots pop_back would read, and
\* whatever the interleaving it yields len items when exhausted, every slot
\* of the window exactly once.
C24_IterWalksWindow ==
    \A it \in BagToSet(rbIts) :
        /\ it.len + Len(it.fronts) + Len(it.backs) = rdLen
        /\ it.fronts = RdPopFrontOrder(rdHead, Len(it.fronts))
        /\ it.backs = RdPopBackOrder(rdTail, Len(it.backs))
        /\ \A a, b \in DOMAIN RbOut(it) : a # b => RbOut(it)[a] # RbOut(it)[b]
        /\ it.len = 0 =>
              /\ Len(RbOut(it)) = rdLen
              /\ {RbOut(it)[a] : a \in DOMAIN RbOut(it)}
                   = {RdWindowIdx(k) : k \in 0..(rdLen - 1)}

\* clear(); push_front(1); push_front(2) on a deque of capacity 3, then a
\* forward iteration to the end: it yielded 2, then 1.
C24_Witness ==
    /\ RdLive /\ rdCap = 3 /\ rdHead = 1 /\ rdTail = 0 /\ rdLen = 2
    /\ ~rdPlain /\ rdAbs = <<2, 1>>
    /\ \E it \in BagToSet(rbIts) :
           /\ it.len = 0 /\ it.backs = <<>>
           /\ [k \in 1..2 |-> rdSlots[it.fronts[k]]] = <<2, 1>>

\* C25: in every reachable state of a deque of capacity C >= 1, head < C,
\* tail < C and tail = (head + len) mod C.
C25_HeadTailLenInvariant ==
    (RdLive /\ rdCap >= 1) =>
        /\ rdHead \in 0..(rdCap - 1)
        /\ rdTail \in 0..(rdCap - 1)
        /\ rdTail = (rdHead + rdLen) % rdCap

\* A wrapped window: two elements from slot 2 of a deque of capacity 3, tail
\* at slot 1, left by a pop.
C25_Witness ==
    /\ RdLive
    /\ rdCap = 3
    /\ rdHead = 2
    /\ rdLen = 2
    /\ rdTail = 1
    /\ rdResult.op \in {"pop_front", "pop_back"}


\* ------------------------------------------------ LinkedList: claim C26

\* C26: on a list of length n built by push_back, push_front, pop_front and
\* pop_back, one borrow iterator (iter or iter_mut) driven by any interleaving
\* of next and next_back has yielded n items when it is exhausted and never
\* yields the same node twice.
C26_InterleavingYieldsEachNodeOnce ==
    (llPlain /\ ~LbIdle) =>
        /\ lbLen + Len(lbLog) = llLen
        /\ \A a, b \in DOMAIN lbLog : a # b => lbLog[a].node # lbLog[b].node

====
